---- MODULE Spec2Model ----
(***************************************************************************)
(* Backup / restore orchestration of ImprovisedBackupDatabaseDocker.       *)
(*                                                                         *)
(* Strings that the code inspects character by character (database names,  *)
(* file names, directory paths, lines of a client's output) are sequences  *)
(* of one-character strings.  Tags that are only compared for equality     *)
(* (engine type, user, host, container) are one-word sequences, so that    *)
(* every Optional[str] compares with None.                                 *)
(***************************************************************************)
EXTENDS Integers, Sequences, FiniteSets, TLC

VARIABLES
    DATABASES,  \* client_backup.DATABASES: the list of target descriptors
    catalog,    \* per target: the lines its engine prints for "list databases"
    dirs,       \* the directories that exist
    files,      \* the files on disk: [dir, name, mtime, src]
    now,        \* the wall clock: [day, sec]
    faults,     \* how many commands have failed so far
    mclock,     \* the modification time the next written file gets
    pc,         \* daemon position: "loop" (inside run_once) or "sleep"
    idx,        \* run_once: index in DATABASES of the next target
    cycle,      \* the run_once cycles started, and the day the last one started
    hist,       \* run_once: a summary of each target iteration of this cycle
    prev,       \* a summary of the previous cycle, or NoCall
    last,       \* the last backup_database call, or NoCall
    rest,       \* the last restore_database call, or NoCall
    probe,      \* the last call of a pure function under test, or NoCall
    logs,       \* the log events emitted so far that carry configuration values
    cmdline     \* the last run of the restore command line, or NoCall

vars == <<DATABASES, catalog, dirs, files, now, faults, mclock, pc, idx, cycle, hist, prev, last, rest, probe, logs, cmdline>>

---------------------------------------------------------------------------
(* Bounds of the model *)

MaxCycles == 2
MaxDay == 2
MaxFaults == 1
MaxLines == 3

---------------------------------------------------------------------------
(* Python values and string methods *)

\* Python's None (no one-character string equals "None")
None == <<"None">>

\* bool(s) of an Optional[str]
Truthy(s) == s # None /\ s # <<>>

NoCall == [fn |-> "none"]

\* str.startswith
StartsWith(s, p) == Len(p) <= Len(s) /\ SubSeq(s, 1, Len(p)) = p

\* str.endswith
EndsWith(s, x) == Len(x) <= Len(s) /\ SubSeq(s, Len(s) - Len(x) + 1, Len(s)) = x

\* x in s
Contains(s, x) == \E i \in 1..(Len(s) - Len(x) + 1) : SubSeq(s, i, i + Len(x) - 1) = x

Whitespace == {" ", "\t"}

\* str.strip()
Strip(s) ==
    LET keep == {i \in 1..Len(s) : s[i] \notin Whitespace}
    IN  IF keep = {} THEN <<>>
        ELSE LET lo == CHOOSE i \in keep : \A j \in keep : i <= j
                 hi == CHOOSE i \in keep : \A j \in keep : j <= i
             IN  SubSeq(s, lo, hi)

\* s.rsplit('_', 1)[0]
SplitFirst_rsplit(s) ==
    LET at == {i \in 1..Len(s) : s[i] = "_"}
    IN  IF at = {} THEN s
        ELSE SubSeq(s, 1, (CHOOSE i \in at : \A j \in at : j <= i) - 1)

\* s.split('_', 1)[0]
SplitFirst(s) ==
    LET at == {i \in 1..Len(s) : s[i] = "_"}
    IN  IF at = {} THEN s
        ELSE SubSeq(s, 1, (CHOOSE i \in at : \A j \in at : i <= j) - 1)

\* os.path.basename
basename(p) ==
    LET at == {i \in 1..Len(p) : p[i] = "/"}
    IN  IF at = {} THEN p
        ELSE SubSeq(p, (CHOOSE i \in at : \A j \in at : j <= i) + 1, Len(p))

\* os.path.splitext(p)[1]: from the last dot of the base name, unless only
\* dots precede it there
splitext(p) ==
    LET b    == basename(p)
        dots == {i \in 1..Len(b) : b[i] = "."}
    IN  IF dots = {} THEN <<>>
        ELSE LET d == CHOOSE i \in dots : \A j \in dots : j <= i
             IN  IF \E k \in 1..(d - 1) : b[k] # "." THEN SubSeq(b, d, Len(b)) ELSE <<>>

\* os.path.join(a, b)
join(a, b) ==
    IF StartsWith(b, <<"/">>) \/ a = <<>> THEN b
    ELSE IF EndsWith(a, <<"/">>) THEN a \o b
    ELSE a \o <<"/">> \o b

Digits == <<"0", "1", "2", "3", "4", "5", "6", "7", "8", "9">>

\* datetime.now().strftime("%Y%m%d") on day d of the modelled month
DateTag(d) == <<"2", "0", "2", "5", "0", "8", "0", Digits[d + 1]>>

\* datetime.now().strftime("%H%M%S") at second s of the modelled minute
TimeTag(s) == <<"2", "3", "0", "1", "0", Digits[s + 1]>>

\* datetime.now().strftime("%Y%m%d_%H%M%S")
Stamp(t) == DateTag(t.day) \o <<"_">> \o TimeTag(t.sec)

EXT_SQL == <<".", "s", "q", "l">>
EXT_BACKUP == <<".", "b", "a", "c", "k", "u", "p">>

\* client_restore.POSTGRES_EXT_PRIORIDAD, MYSQL_EXT
POSTGRES_EXT_PRIORIDAD == <<EXT_BACKUP, EXT_SQL>>
MYSQL_EXT == <<EXT_SQL>>

Range(s) == {s[i] : i \in 1..Len(s)}

---------------------------------------------------------------------------
(* The file system as the code sees it *)

\* os.path.isdir
isdir(d) == d \in dirs

\* os.listdir: the names in directory d (in no particular order)
listdir(d) == {f.name : f \in {g \in files : g.dir = d}}

\* _has_today_backup without its test of the extension
_has_today_backup_no_ext(backup_dir, db_name) ==
    /\ isdir(backup_dir)
    /\ \E f \in listdir(backup_dir) :
          IF Truthy(db_name)
          THEN StartsWith(f, db_name \o <<"_">> \o DateTag(now.day))
          ELSE Contains(f, <<"_">> \o DateTag(now.day) \o <<"_">>)

\* _has_today_backup looking for _YYYYMMDD only where no name is given
_has_today_backup_loose(backup_dir, db_name) ==
    /\ isdir(backup_dir)
    /\ \E f \in listdir(backup_dir) :
          /\ IF Truthy(db_name)
             THEN StartsWith(f, db_name \o <<"_">> \o DateTag(now.day))
             ELSE Contains(f, <<"_">> \o DateTag(now.day))
          /\ \E ext \in {EXT_SQL, EXT_BACKUP} : EndsWith(f, ext)

\* _has_today_backup without the branch for a missing name: f"{None}_{tag}"
_has_today_backup_none_prefix(backup_dir, db_name) ==
    /\ isdir(backup_dir)
    /\ \E f \in listdir(backup_dir) :
          /\ StartsWith(f, (IF db_name = None THEN <<"N", "o", "n", "e">> ELSE db_name)
                           \o <<"_">> \o DateTag(now.day))
          /\ \E ext \in {EXT_SQL, EXT_BACKUP} : EndsWith(f, ext)

\* main._has_today_backup
_has_today_backup(backup_dir, db_name) ==
    LET date_tag == DateTag(now.day)
        extensions == {EXT_SQL, EXT_BACKUP}
    IN  /\ isdir(backup_dir)
        /\ \E f \in listdir(backup_dir) :
              /\ IF Truthy(db_name)
                 THEN StartsWith(f, db_name \o <<"_">> \o date_tag)
                 ELSE Contains(f, <<"_">> \o date_tag \o <<"_">>)
              /\ \E ext \in extensions : EndsWith(f, ext)

---------------------------------------------------------------------------
(* Target descriptors (entries of databases.json) *)

DB_A == <<"a">>
DB_B == <<"b">>
DB_A_B == <<"a", "_", "b">>

DIR_DEFAULT == <<".", "/">>
DIR_PG == <<"b", "k">>

\* str.lower() on the engine tags that occur
lower(t) == CASE t = <<"Postgres">> -> <<"postgres">> [] t = <<"MySQL">> -> <<"mysql">> [] OTHER -> t

\* db_conf.get('type', 'postgres').lower()
TypeOf(conf) == lower(IF conf.type = None THEN <<"postgres">> ELSE conf.type)

\* db_conf.get('host', '127.0.0.1')
HostOf(conf) == IF conf.host = None THEN <<"127.0.0.1">> ELSE conf.host

\* db_conf.get('port', '5432' if db_type == 'postgres' else '3306')
PortOf(conf) ==
    IF conf.port = None THEN (IF TypeOf(conf) = <<"postgres">> THEN <<"5432">> ELSE <<"3306">>) ELSE conf.port

\* db_conf.get('backup_dir', './')
DirOf(conf) == IF conf.backup_dir = None THEN DIR_DEFAULT ELSE conf.backup_dir

Target(type, db, container, host, dir) ==
    [type |-> type, username |-> <<"u">>, password |-> <<"secret">>, port |-> None,
     host |-> host, backup_dir |-> dir, container |-> container, db |-> db]

Targets ==
    { Target(<<"postgres">>, DB_A, None, <<"h1">>, DIR_PG),
      Target(None, None, <<"c1">>, None, DIR_PG),
      Target(<<"mysql">>, None, None, <<"h1">>, None),
      Target(<<"MySQL">>, DB_A, <<"c2">>, <<>>, None),
      Target(<<"mariadb">>, DB_A_B, None, <<>>, DIR_PG),
      Target(<<"oracle">>, DB_B, None, <<"h1">>, None) }

\* the configurations considered: one or two targets
Configs == {<<t>> : t \in Targets} \cup {<<s, t>> : s, t \in Targets}

---------------------------------------------------------------------------
(* External commands *)

\* client_backup.POSTGRES_EXCLUDE, MYSQL_EXCLUDE
N_POSTGRES == <<"p", "o", "s", "t", "g", "r", "e", "s">>
N_INFORMATION_SCHEMA == <<"i", "n", "f", "o", "r", "m", "a", "t", "i", "o", "n", "_", "s", "c", "h", "e", "m", "a">>
N_PERFORMANCE_SCHEMA == <<"p", "e", "r", "f", "o", "r", "m", "a", "n", "c", "e", "_", "s", "c", "h", "e", "m", "a">>
N_MYSQL == <<"m", "y", "s", "q", "l">>
N_SYS == <<"s", "y", "s">>
N_DATABASE == <<"D", "a", "t", "a", "b", "a", "s", "e">>
POSTGRES_EXCLUDE == {N_POSTGRES}
MYSQL_EXCLUDE == {N_INFORMATION_SCHEMA, N_PERFORMANCE_SCHEMA, N_MYSQL, N_SYS}

\* an argv as the fields the code fills in
Cmd(tool, op, host, port, db, path) ==
    [tool |-> tool, op |-> op, via |-> None, host |-> host, port |-> port, db |-> db, path |-> path]

\* the k-th command issued by one operation ends as the fault plan says:
\* "ok", "failed" (non-zero exit: CalledProcessError) or "oserror" (the
\* process could not be started)
Outcome(plan, k) ==
    IF k = plan.f1 THEN plan.k1 ELSE IF k = plan.f2 THEN plan.k2 ELSE "ok"

FaultKinds == {"failed", "oserror"}

NoFault == [f1 |-> 0, k1 |-> "ok", f2 |-> 0, k2 |-> "ok"]

Faulty(log) == Cardinality({k \in 1..Len(log) : log[k].res # "ok"})

\* every way operation Op can go when at most `budget` of its commands end
\* badly: no fault, a fault at any command of the faultless run, and a second
\* fault at any command issued after the first (no operation of the program
\* goes on after a second fault)
Behaviours(Op(_), budget) ==
    LET P1 == IF budget >= 1
              THEN {[NoFault EXCEPT !.f1 = i, !.k1 = k] :
                       i \in 1..Len(Op(NoFault).log), k \in FaultKinds}
              ELSE {}
        P2 == IF budget >= 2
              THEN UNION {{[p EXCEPT !.f2 = j, !.k2 = k] :
                              j \in (p.f1 + 1)..Len(Op(p).log), k \in FaultKinds} : p \in P1}
              ELSE {}
    IN  {Op(p) : p \in {NoFault} \cup P1 \cup P2}

\* the state an operation threads through its steps
Start(t) ==
    [log |-> <<>>, exc |-> "none", files |-> files, mclock |-> mclock,
     written |-> {}, t |-> t, ret |-> None]

\* subprocess.run(cmd, check=True): skipped when an exception is already
\* propagating
subprocess_run(st, cmd, plan) ==
    IF st.exc # "none" THEN st
    ELSE LET res == Outcome(plan, Len(st.log) + 1)
         IN  [st EXCEPT !.log = Append(@, [c |-> cmd, res |-> res]),
                        !.exc = IF res = "ok" THEN "none" ELSE res]

\* client_backup.run
run(st, cmd, plan) == subprocess_run(st, cmd, plan)

\* client_backup.docker_exec
docker_exec(st, container, inner_cmd, plan) ==
    run(st, [inner_cmd EXCEPT !.via = container], plan)

\* a file (re)written at path dir/name
Put(st, dir, name, src) ==
    [st EXCEPT !.files = {f \in @ : ~(f.dir = dir /\ f.name = name)}
                           \cup {[dir |-> dir, name |-> name, mtime |-> st.mclock, src |-> src]},
               !.mclock = @ + 1,
               !.written = @ \cup {name}]

\* a command that writes dir/name: the file is there when the command
\* succeeded, and may be there (partly written) when it exited non-zero
RunWriting(st, s1, partial, dir, name, src) ==
    IF st.exc # "none" THEN st
    ELSE IF s1.exc = "none" \/ (s1.exc = "failed" /\ partial) THEN
         [Put(s1, dir, name, src) EXCEPT !.exc = s1.exc]
    ELSE s1

\* client_backup.ensure_backup_dir
ensure_backup_dir(backup_dir) == dirs \cup {backup_dir}

\* {k: ('***' if k == 'password' else v) for k, v in db_conf.items()}
safe_conf(db_conf) == [db_conf EXCEPT !.password = <<"***">>]

\* a log event of function `by` whose arguments hold the descriptors confs
LogEvent(by, confs) == [by |-> by, confs |-> confs]

---------------------------------------------------------------------------
(* Database Enumerator *)

\* the filter testing the raw line against the excluded names
FilterPostgres_raw(lines) ==
    LET kept == SelectSeq(lines, LAMBDA d : Strip(d) # <<>> /\ d \notin POSTGRES_EXCLUDE)
    IN  [i \in 1..Len(kept) |-> Strip(kept[i])]

\* [d.strip() for d in stdout.splitlines() if d.strip() and d.strip() not in POSTGRES_EXCLUDE]
FilterPostgres(lines) ==
    LET kept == SelectSeq(lines, LAMBDA d : Strip(d) # <<>> /\ Strip(d) \notin POSTGRES_EXCLUDE)
    IN  [i \in 1..Len(kept) |-> Strip(kept[i])]

\* [... if d.strip() and d.strip() not in MYSQL_EXCLUDE and not d.startswith("Database")]
FilterMysql(lines) ==
    LET kept == SelectSeq(lines, LAMBDA d : /\ Strip(d) # <<>>
                                            /\ Strip(d) \notin MYSQL_EXCLUDE
                                            /\ ~StartsWith(d, N_DATABASE))
    IN  [i \in 1..Len(kept) |-> Strip(kept[i])]

\* client_backup.list_postgres_databases; stdout is what the engine prints
list_postgres_databases(st, user, password, port, host, container, stdout, plan) ==
    LET s1 == IF Truthy(container)
              THEN docker_exec(st, container, Cmd("psql", "list", None, None, N_POSTGRES, None), plan)
              ELSE run(st, Cmd("psql", "list", host, port, N_POSTGRES, None), plan)
    IN  IF s1.exc # "none" THEN s1 ELSE [s1 EXCEPT !.ret = FilterPostgres(stdout)]

\* list_mysql_databases retrying with the command it issued first
list_mysql_databases_keep_host(st, user, password, port, host, container, stdout, plan) ==
    LET base_parts == IF Truthy(container)
                      THEN Cmd("mysql", "list", None, None, None, None)
                      ELSE Cmd("mysql", "list", IF Truthy(host) THEN host ELSE None, port, None, None)
        attempt(s, parts) == IF Truthy(container) THEN docker_exec(s, container, parts, plan)
                             ELSE run(s, parts, plan)
        s1 == attempt(st, base_parts)
        s2 == IF s1.exc = "failed" THEN attempt([s1 EXCEPT !.exc = "none"], base_parts) ELSE s1
    IN  IF s2.exc # "none" THEN s2 ELSE [s2 EXCEPT !.ret = FilterMysql(stdout)]

\* client_backup.list_mysql_databases
list_mysql_databases(st, user, password, port, host, container, stdout, plan) ==
    LET base_parts == IF Truthy(container)
                      THEN Cmd("mysql", "list", None, None, None, None)
                      ELSE Cmd("mysql", "list", IF Truthy(host) THEN host ELSE None, port, None, None)
        attempt(s, parts) == IF Truthy(container) THEN docker_exec(s, container, parts, plan)
                             ELSE run(s, parts, plan)
        s1 == attempt(st, base_parts)
        retry == [base_parts EXCEPT !.host = None]
        s2 == IF s1.exc = "failed" THEN attempt([s1 EXCEPT !.exc = "none"], retry) ELSE s1
    IN  IF s2.exc # "none" THEN s2 ELSE [s2 EXCEPT !.ret = FilterMysql(stdout)]

---------------------------------------------------------------------------
(* Backup Executor *)

TMP == <<"/", "t", "m", "p", "/">>

\* f"{db}_{ts}{ext}"
ArtifactName(db, ts, ext) == db \o <<"_">> \o ts \o ext

\* backup_postgres_db without the custom-format dump
backup_postgres_db_plain_only(st, db, user, password, port, host, backup_dir, container, plan, partial) ==
    LET n_plain == ArtifactName(db, Stamp(st.t), EXT_SQL)
        l_plain == join(backup_dir, n_plain)
    IN  IF Truthy(container) THEN
            LET s1 == docker_exec(st, container, Cmd("pg_dump", "dump", None, None, db, TMP \o n_plain), plan)
                s2 == RunWriting(s1, run(s1, Cmd("docker cp", "copy_out", None, None, None, l_plain), plan),
                                 partial, backup_dir, n_plain, db)
            IN  docker_exec(s2, container, Cmd("rm", "cleanup", None, None, None, TMP \o n_plain), plan)
        ELSE RunWriting(st, run(st, Cmd("pg_dump", "dump", host, port, db, l_plain), plan),
                        partial, backup_dir, n_plain, db)

\* client_backup.backup_postgres_db
backup_postgres_db(st, db, user, password, port, host, backup_dir, container, plan, partial) ==
    LET ts == Stamp(st.t)
        r_plain == TMP \o ArtifactName(db, ts, EXT_SQL)
        r_custom == TMP \o ArtifactName(db, ts, EXT_BACKUP)
        n_plain == ArtifactName(db, ts, EXT_SQL)
        n_custom == ArtifactName(db, ts, EXT_BACKUP)
        l_plain == join(backup_dir, n_plain)
        l_custom == join(backup_dir, n_custom)
    IN  IF Truthy(container) THEN
            LET s1 == docker_exec(st, container, Cmd("pg_dump", "dump", None, None, db, r_plain), plan)
                s2 == RunWriting(s1, run(s1, Cmd("docker cp", "copy_out", None, None, None, l_plain), plan),
                                 partial, backup_dir, n_plain, db)
                s3 == docker_exec(s2, container, Cmd("rm", "cleanup", None, None, None, r_plain), plan)
                s4 == docker_exec(s3, container, Cmd("pg_dump", "dump", None, None, db, r_custom), plan)
                s5 == RunWriting(s4, run(s4, Cmd("docker cp", "copy_out", None, None, None, l_custom), plan),
                                 partial, backup_dir, n_custom, db)
            IN  docker_exec(s5, container, Cmd("rm", "cleanup", None, None, None, r_custom), plan)
        ELSE
            LET s1 == RunWriting(st, run(st, Cmd("pg_dump", "dump", host, port, db, l_plain), plan),
                                 partial, backup_dir, n_plain, db)
            IN  RunWriting(s1, run(s1, Cmd("pg_dump", "dump", host, port, db, l_custom), plan),
                           partial, backup_dir, n_custom, db)

\* client_backup.backup_mysql_db
backup_mysql_db(st, db, user, password, port, host, backup_dir, container, plan, partial) ==
    LET ts == Stamp(st.t)
        n_plain == ArtifactName(db, ts, EXT_SQL)
        l_plain == join(backup_dir, n_plain)
        r_plain == TMP \o n_plain
    IN  IF Truthy(container) THEN
            LET s1 == docker_exec(st, container, Cmd("mysqldump", "dump", None, None, db, r_plain), plan)
                s2 == RunWriting(s1, run(s1, Cmd("docker cp", "copy_out", None, None, None, l_plain), plan),
                                 partial, backup_dir, n_plain, db)
            IN  docker_exec(s2, container, Cmd("rm", "cleanup", None, None, None, r_plain), plan)
        ELSE
            \* open(l_plain, 'w') creates the file before mysqldump runs
            subprocess_run(Put(st, backup_dir, n_plain, db),
                           Cmd("mysqldump", "dump", IF Truthy(host) THEN host ELSE None, port, db, l_plain),
                           plan)

\* for db in dbs: backup_<engine>_db(db, ...)
RECURSIVE BackupEach(_, _, _, _, _, _)
BackupEach(st, conf, dbs, i, plan, partial) ==
    IF st.exc # "none" \/ i > Len(dbs) THEN st
    ELSE LET s1 == IF TypeOf(conf) = <<"postgres">>
                   THEN backup_postgres_db(st, dbs[i], conf.username, conf.password, PortOf(conf),
                                           HostOf(conf), DirOf(conf), conf.container, plan, partial)
                   ELSE backup_mysql_db(st, dbs[i], conf.username, conf.password, PortOf(conf),
                                        HostOf(conf), DirOf(conf), conf.container, plan, partial)
         IN  BackupEach(s1, conf, dbs, i + 1, plan, partial)

\* the try block of backup_database
backup_try(db_conf, stdout, plan, partial) ==
    LET db_type == TypeOf(db_conf)
        st == Start(now)
    IN  IF db_type = <<"postgres">> \/ db_type \in {<<"mysql">>, <<"mariadb">>} THEN
            LET s1 == IF Truthy(db_conf.db) THEN [st EXCEPT !.ret = <<db_conf.db>>]
                      ELSE IF db_type = <<"postgres">>
                      THEN list_postgres_databases(st, db_conf.username, db_conf.password, PortOf(db_conf),
                                                   HostOf(db_conf), db_conf.container, stdout, plan)
                      ELSE list_mysql_databases(st, db_conf.username, db_conf.password, PortOf(db_conf),
                                                HostOf(db_conf), db_conf.container, stdout, plan)
                dbs == IF s1.exc = "none" THEN s1.ret ELSE <<>>
                s2 == BackupEach(s1, db_conf, dbs, 1, plan, partial)
            IN  [s2 EXCEPT !.ret = dbs]
        ELSE [st EXCEPT !.ret = <<>>]

\* backup_database without its except clause
backup_database_uncaught(db_conf, stdout, plan, partial) ==
    LET s == backup_try(db_conf, stdout, plan, partial)
    IN  [fn |-> "backup_database", conf |-> db_conf, log |-> s.log, files |-> s.files,
         mclock |-> s.mclock, written |-> s.written, dbs |-> s.ret,
         caught |-> FALSE, exc |-> s.exc, logged |-> {}]

\* client_backup.backup_database: CalledProcessError is caught and logged,
\* anything else propagates
backup_database(db_conf, stdout, plan, partial) ==
    LET s == backup_try(db_conf, stdout, plan, partial)
    IN  [fn |-> "backup_database", conf |-> db_conf, log |-> s.log, files |-> s.files,
         mclock |-> s.mclock, written |-> s.written, dbs |-> s.ret,
         caught |-> (s.exc = "failed"),
         exc |-> IF s.exc = "failed" THEN "none" ELSE s.exc,
         logged |-> IF s.exc = "failed" THEN {LogEvent("backup_database", <<safe_conf(db_conf)>>)} ELSE {}]


---------------------------------------------------------------------------
(* The daemon: run_once every interval *)

Dumps(log) == Cardinality({k \in 1..Len(log) : log[k].c.op = "dump"})

Ended(log, res) == \E k \in 1..Len(log) : log[k].res = res

\* main.run_once, one iteration of its loop: the target already has a backup today
RunOnceSkip ==
    /\ pc = "loop"
    /\ _has_today_backup(DirOf(DATABASES[idx]), DATABASES[idx].db)
    /\ hist' = Append(hist, [called |-> FALSE, failed |-> FALSE, oserror |-> FALSE, dumps |-> 0, wrote |-> 0])
    /\ IF idx < Len(DATABASES) THEN idx' = idx + 1 /\ pc' = "loop" ELSE idx' = idx /\ pc' = "sleep"
    /\ UNCHANGED <<DATABASES, catalog, dirs, files, now, faults, mclock, cycle, prev, last, rest, probe, logs, cmdline>>

\* main.run_once, one iteration of its loop: backup_database(db_conf); an
\* exception that leaves backup_database leaves run_once too, and daemon()
\* logs it and sleeps
RunOnceBackup ==
    /\ pc = "loop"
    /\ ~_has_today_backup(DirOf(DATABASES[idx]), DATABASES[idx].db)
    /\ \E r \in UNION {Behaviours(LAMBDA plan : backup_database(DATABASES[idx], catalog[idx], plan, partial),
                                    MaxFaults - faults) : partial \in BOOLEAN} :
                 /\ last' = [fn |-> r.fn, conf |-> r.conf, log |-> r.log, written |-> r.written,
                             dbs |-> r.dbs, caught |-> r.caught, exc |-> r.exc, at |-> now]
                 /\ files' = r.files
                 /\ mclock' = r.mclock
                 /\ faults' = faults + Faulty(r.log)
                 /\ dirs' = ensure_backup_dir(DirOf(DATABASES[idx]))
                 /\ logs' = logs \cup {LogEvent("run_once", <<safe_conf(DATABASES[idx])>>)} \cup r.logged
                 /\ hist' = Append(hist, [called |-> TRUE, failed |-> Ended(r.log, "failed"),
                                          oserror |-> Ended(r.log, "oserror"),
                                          dumps |-> Dumps(r.log), wrote |-> Cardinality(r.written)])
                 /\ IF r.exc = "none" /\ idx < Len(DATABASES)
                    THEN idx' = idx + 1 /\ pc' = "loop"
                    ELSE idx' = idx /\ pc' = "sleep"
    /\ UNCHANGED <<DATABASES, catalog, now, cycle, prev, rest, probe, cmdline>>

\* a cycle in which every target was reached and no command failed
Clean(h) ==
    /\ Len(h) = Len(DATABASES)
    /\ \A k \in 1..Len(h) : ~h[k].failed /\ ~h[k].oserror

\* main.daemon: time.sleep(interval_seconds) is over (the clock has moved on),
\* run_once() is called again
Wake ==
    /\ pc = "sleep"
    /\ cycle.n < MaxCycles
    /\ cycle' = [n |-> cycle.n + 1, day |-> now.day]
    /\ prev' = IF cycle.n = 0 THEN NoCall
               ELSE [fn |-> "run_once", clean |-> Clean(hist), day |-> cycle.day]
    /\ hist' = <<>>
    /\ idx' = 1
    /\ pc' = IF Len(DATABASES) = 0 THEN "sleep" ELSE "loop"
    /\ rest' = NoCall
    /\ now' = [now EXCEPT !.sec = @ + 1]
    /\ UNCHANGED <<DATABASES, catalog, dirs, files, faults, mclock, last, probe, logs, cmdline>>

\* midnight passes while the daemon sleeps
NextDay ==
    /\ pc = "sleep"
    /\ now.day < MaxDay
    /\ now' = [now EXCEPT !.day = @ + 1]
    /\ UNCHANGED <<DATABASES, catalog, dirs, files, faults, mclock, pc, idx, cycle, hist, prev, last, rest, probe, logs, cmdline>>

---------------------------------------------------------------------------
(* Restore Selector *)

\* files.sort(key=mtime, reverse=True) of a set of file records, as paths
RECURSIVE SortByMtimeDesc(_)
SortByMtimeDesc(fs) ==
    IF fs = {} THEN <<>>
    ELSE LET newest == CHOOSE f \in fs : \A g \in fs : g.mtime <= f.mtime
         IN  <<join(newest.dir, newest.name)>> \o SortByMtimeDesc(fs \ {newest})

\* client_restore._list_backup_files
_list_backup_files(backup_dir, db_name, exts) ==
    IF ~isdir(backup_dir) THEN <<>>
    ELSE LET prefix == db_name \o <<"_">>
         IN  SortByMtimeDesc({f \in files : /\ f.dir = backup_dir
                                            /\ StartsWith(f.name, prefix)
                                            /\ \E k \in 1..Len(exts) : EndsWith(f.name, exts[k])})

\* _choose_latest going by recency alone
_choose_latest_newest(fl, preferred_order) == IF fl = <<>> THEN None ELSE fl[1]

\* _choose_latest falling back to the end of the list
_choose_latest_last(fl, preferred_order) ==
    IF fl = <<>> THEN None
    ELSE LET hits == {i \in 1..Len(fl) : \E k \in 1..Len(preferred_order) : EndsWith(fl[i], preferred_order[k])}
         IN  IF hits = {} THEN fl[Len(fl)]
             ELSE LET k == CHOOSE x \in 1..Len(preferred_order) :
                                /\ \E i \in hits : EndsWith(fl[i], preferred_order[x])
                                /\ \A y \in 1..(x - 1) : \A i \in hits : ~EndsWith(fl[i], preferred_order[y])
                  IN  fl[CHOOSE i \in hits : /\ EndsWith(fl[i], preferred_order[k])
                                             /\ \A j \in hits : EndsWith(fl[j], preferred_order[k]) => i <= j]

\* client_restore._choose_latest
_choose_latest(fl, preferred_order) ==
    IF fl = <<>> THEN None
    ELSE LET hits(k) == {i \in 1..Len(fl) : EndsWith(fl[i], preferred_order[k])}
             found == {k \in 1..Len(preferred_order) : hits(k) # {}}
         IN  IF found = {} THEN fl[1]
             ELSE LET k == CHOOSE x \in found : \A y \in found : x <= y
                  IN  fl[CHOOSE i \in hits(k) : \A j \in hits(k) : i <= j]

---------------------------------------------------------------------------
(* Restore Executor *)

RESTORE_PREFIX == <<"r", "e", "s", "t", "o", "r", "e", "_">>

\* the finally clause removing the staged copy only after a body that succeeded
Finally_on_success(s, container, remote, plan) ==
    IF s.exc # "none" THEN s
    ELSE LET c == docker_exec(s, container, Cmd("rm", "cleanup", None, None, None, remote), plan)
         IN  [c EXCEPT !.exc = s.exc]

\* try: body finally: try: docker_exec(rm -f remote) except Exception: pass
\* (s is the state the body ended in; what it raised goes on propagating)
Finally(s, container, remote, plan) ==
    LET c == docker_exec([s EXCEPT !.exc = "none"], container,
                         Cmd("rm", "cleanup", None, None, None, remote), plan)
    IN  [c EXCEPT !.exc = s.exc]

\* client_restore._restore_postgres
_restore_postgres(st, db_name, file_path, user, password, port, host, container, plan) ==
    LET ext == splitext(file_path)
    IN  IF Truthy(container) THEN
            LET remote == TMP \o RESTORE_PREFIX \o basename(file_path)
                s1 == run(st, Cmd("docker cp", "copy_in", None, None, None, file_path), plan)
                s2 == IF ext = EXT_BACKUP
                      THEN docker_exec(s1, container,
                                       Cmd("pg_restore", "restore_archive", host, port, N_POSTGRES, remote), plan)
                      ELSE docker_exec(docker_exec(s1, container,
                                                   Cmd("psql", "drop_create", host, port, db_name, None), plan),
                                       container, Cmd("psql", "load", host, port, db_name, remote), plan)
            IN  IF s1.exc # "none" THEN s1 ELSE Finally(s2, container, remote, plan)
        ELSE
            IF ext = EXT_BACKUP
            THEN run(st, Cmd("pg_restore", "restore_archive", host, port, N_POSTGRES, file_path), plan)
            ELSE run(run(st, Cmd("psql", "drop_create", host, port, db_name, None), plan),
                     Cmd("psql", "load", host, port, db_name, file_path), plan)

\* _restore_mysql loading the dump before it drops and creates the database
_restore_mysql_load_first(st, db_name, file_path, user, password, port, host, container, plan) ==
    LET h == IF Truthy(host) THEN host ELSE None
        drop_create_cmd == Cmd("mysql", "drop_create", h, port, db_name, None)
    IN  IF Truthy(container) THEN
            LET remote == TMP \o RESTORE_PREFIX \o basename(file_path)
                s2 == run(st, Cmd("docker cp", "copy_in", None, None, None, file_path), plan)
                s3 == docker_exec(docker_exec(s2, container, Cmd("mysql", "load", h, port, db_name, remote), plan),
                                  container, drop_create_cmd, plan)
            IN  IF s2.exc # "none" THEN s2 ELSE Finally(s3, container, remote, plan)
        ELSE
            subprocess_run(subprocess_run(st, Cmd("mysql", "load", h, port, db_name, file_path), plan),
                           drop_create_cmd, plan)

\* client_restore._restore_mysql (with _mysql_restore_shell)
_restore_mysql(st, db_name, file_path, user, password, port, host, container, plan) ==
    LET h == IF Truthy(host) THEN host ELSE None
        drop_create_cmd == Cmd("mysql", "drop_create", h, port, db_name, None)
    IN  IF Truthy(container) THEN
            LET remote == TMP \o RESTORE_PREFIX \o basename(file_path)
                s1 == docker_exec(st, container, drop_create_cmd, plan)
                s2 == run(s1, Cmd("docker cp", "copy_in", None, None, None, file_path), plan)
                s3 == docker_exec(s2, container, Cmd("mysql", "load", h, port, db_name, remote), plan)
            IN  IF s2.exc # "none" THEN s2 ELSE Finally(s3, container, remote, plan)
        ELSE
            subprocess_run(subprocess_run(st, drop_create_cmd, plan),
                           Cmd("mysql", "load", h, port, db_name, file_path), plan)

\* the outcome of restore_database had it only its first except clause
Restored_called_process_error_only(db_conf, db, file_path, target_db, used, ret, s) ==
    [fn |-> "restore_database", conf |-> db_conf, db |-> db, file_path |-> file_path,
     target_db |-> target_db, used |-> used, ret |-> ret, log |-> s.log, raised |-> s.exc,
     exc |-> IF s.exc = "failed" THEN "none" ELSE s.exc,
     logged |-> IF s.exc = "failed" THEN {LogEvent("restore_database", <<safe_conf(db_conf)>>)} ELSE {}]

\* the outcome of restore_database: what its body raised is caught by
\* `except CalledProcessError` or `except Exception`, never propagated
Restored(db_conf, db, file_path, target_db, used, ret, s) ==
    [fn |-> "restore_database", conf |-> db_conf, db |-> db, file_path |-> file_path,
     target_db |-> target_db, used |-> used, ret |-> ret, log |-> s.log, raised |-> s.exc, exc |-> "none",
     logged |-> IF s.exc = "failed" THEN {LogEvent("restore_database", <<safe_conf(db_conf)>>)} ELSE {}]

\* client_restore.restore_database
restore_database(db_conf, db, file_path, plan) ==
    LET db_type == TypeOf(db_conf)
        st == Start(now)
        t0 == IF Truthy(db) THEN db ELSE db_conf.db
        target_db == IF ~Truthy(t0) /\ Truthy(file_path) THEN SplitFirst(basename(file_path)) ELSE t0
        chosen == IF Truthy(file_path) THEN file_path
                  ELSE IF db_type = <<"postgres">>
                  THEN _choose_latest(_list_backup_files(DirOf(db_conf), target_db, POSTGRES_EXT_PRIORIDAD),
                                      POSTGRES_EXT_PRIORIDAD)
                  ELSE IF db_type \in {<<"mysql">>, <<"mariadb">>}
                  THEN _choose_latest(_list_backup_files(DirOf(db_conf), target_db, MYSQL_EXT), MYSQL_EXT)
                  ELSE None
    IN  IF ~Truthy(t0) /\ ~Truthy(file_path) THEN Restored(db_conf, db, file_path, t0, None, None, st)
        ELSE IF ~Truthy(chosen) THEN Restored(db_conf, db, file_path, target_db, None, None, st)
        ELSE LET s == IF db_type = <<"postgres">>
                      THEN _restore_postgres(st, target_db, chosen, db_conf.username, db_conf.password,
                                             PortOf(db_conf), HostOf(db_conf), db_conf.container, plan)
                      ELSE _restore_mysql(st, target_db, chosen, db_conf.username, db_conf.password,
                                          PortOf(db_conf), HostOf(db_conf), db_conf.container, plan)
             IN  Restored(db_conf, db, file_path, target_db, chosen,
                          IF s.exc = "none" THEN chosen ELSE None, s)

---------------------------------------------------------------------------
(* What the engines print *)

\* psql -t -c "SELECT datname ...": one name a line, indented, a blank line last
PostgresOutputs ==
    { <<<<" ", "p", "o", "s", "t", "g", "r", "e", "s">>, <<>>>>,
      <<<<" ", "p", "o", "s", "t", "g", "r", "e", "s">>, <<" ", "a">>, <<>>>>,
      <<<<" ", "a">>, <<" ", "p", "o", "s", "t", "g", "r", "e", "s">>, <<" ", "a", "_", "b">>, <<>>>> }

\* mysql -e "SHOW DATABASES;" (batch mode): the header, then one name a line
MysqlOutputs ==
    { <<N_DATABASE, N_INFORMATION_SCHEMA, N_MYSQL, N_PERFORMANCE_SCHEMA, N_SYS>>,
      <<N_DATABASE, DB_A, N_INFORMATION_SCHEMA, N_MYSQL>>,
      <<N_DATABASE, DB_A, DB_A_B, N_INFORMATION_SCHEMA>> }

\* the listings target conf can get; one value where it never asks
OutputsOf(conf) ==
    IF Truthy(conf.db) THEN {<<>>}
    ELSE IF TypeOf(conf) = <<"postgres">> THEN PostgresOutputs
    ELSE IF TypeOf(conf) \in {<<"mysql">>, <<"mariadb">>} THEN MysqlOutputs
    ELSE {<<>>}

---------------------------------------------------------------------------
(* The daemon and the operator's restores *)

\* the operator restores target i once while the daemon sleeps: db and
\* file_path as given on the command line
DbArgs == {None, DB_A, DB_A_B}

\* a dump kept outside the backup directories
OTHER_DIR == <<"/", "m">>

OTHER_FILE == join(OTHER_DIR, ArtifactName(DB_B, Stamp([day |-> 1, sec |-> 1]), EXT_SQL))

FileArgs(i) == {None, OTHER_FILE}
               \cup {join(f.dir, f.name) : f \in {g \in files : g.dir = DirOf(DATABASES[i])}}

Restore ==
    /\ pc = "sleep"
    /\ rest = NoCall
    /\ \E i \in 1..Len(DATABASES), db \in DbArgs :
          \E file_path \in FileArgs(i) :
             \E r \in Behaviours(LAMBDA plan : restore_database(DATABASES[i], db, file_path, plan),
                                 MaxFaults - faults) :
                /\ rest' = r
                /\ logs' = logs \cup r.logged
                /\ faults' = faults + Faulty(r.log)
    /\ UNCHANGED <<DATABASES, catalog, dirs, files, now, mclock, pc, idx, cycle, hist, prev, last, probe, cmdline>>

Init ==
    /\ DATABASES \in Configs \cup {<<>>}
    /\ catalog \in [1..Len(DATABASES) -> PostgresOutputs \cup MysqlOutputs \cup {<<>>}]
    /\ \A i \in 1..Len(DATABASES) : catalog[i] \in OutputsOf(DATABASES[i])
    /\ dirs = {DIR_DEFAULT}
    /\ files = {}
    /\ now = [day |-> 1, sec |-> 0]
    /\ faults = 0
    /\ mclock = 1
    /\ pc = "sleep"
    /\ idx = 1
    /\ cycle = [n |-> 0, day |-> 1]
    /\ hist = <<>>
    /\ prev = NoCall
    /\ last = NoCall
    /\ rest = NoCall
    /\ probe = NoCall
    /\ logs = {}
    /\ cmdline = NoCall

Next ==
    \/ Wake
    \/ RunOnceSkip
    \/ RunOnceBackup
    \/ NextDay

Spec == Init /\ [][Next]_vars

\* one target, backed up by the daemon and restored by the operator
InitRestore == Init /\ Len(DATABASES) = 1

NextRestore == Next \/ Restore

SpecRestore == InitRestore /\ [][NextRestore]_vars

---------------------------------------------------------------------------
(* The restore command line *)

\* _select_config returning the first of several matches
_select_config_first(config, db_type, container) ==
    LET typed   == SelectSeq(config, LAMBDA c : TypeOf(c) = db_type)
        matches == IF Truthy(container) THEN SelectSeq(typed, LAMBDA c : c.container = container) ELSE typed
    IN  IF matches = <<>> THEN [found |-> FALSE, ret |-> None, logged |-> {}]
        ELSE [found |-> TRUE, ret |-> matches[1], logged |-> {}]

\* client_restore._select_config: the descriptor selected, if any, and what
\* was logged; LOGGER.error(..., matches) formats the descriptors as they are
_select_config(config, db_type, container) ==
    LET typed   == SelectSeq(config, LAMBDA c : TypeOf(c) = db_type)
        matches == IF Truthy(container) THEN SelectSeq(typed, LAMBDA c : c.container = container) ELSE typed
    IN  IF matches = <<>> THEN [found |-> FALSE, ret |-> None, logged |-> {}]
        ELSE IF Len(matches) > 1
        THEN [found |-> FALSE, ret |-> None, logged |-> {LogEvent("_select_config", matches)}]
        ELSE [found |-> TRUE, ret |-> matches[1], logged |-> {}]

\* client_restore.cli, subcommand restore: --type --container --db --file
\* --backup-dir
cli(config, type, container, db, file, backup_dir, plan) ==
    LET sel     == _select_config(config, type, container)
        db_conf == IF Truthy(backup_dir) THEN [sel.ret EXCEPT !.backup_dir = backup_dir] ELSE sel.ret
        used    == restore_database(db_conf, db, file, plan)
        args    == [type |-> type, container |-> container, db |-> db, file |-> file,
                    backup_dir |-> backup_dir]
    IN  IF ~sel.found
        THEN [fn |-> "cli", args |-> args, code |-> 2, call |-> NoCall, log |-> <<>>, logged |-> sel.logged]
        ELSE [fn |-> "cli", args |-> args, code |-> IF Truthy(used.ret) THEN 0 ELSE 1,
              call |-> used, log |-> used.log, logged |-> sel.logged \cup used.logged]

\* argparse: choices of --type
CliTypes == {<<"postgres">>, <<"mysql">>, <<"mariadb">>}

CliContainers == {None, <<"c1">>, <<"c2">>}

\* what the backup directories hold when the operator runs the command:
\* nothing, or the artifacts of earlier cycles
CliFiles ==
    { {},
      { [dir |-> DIR_PG, name |-> ArtifactName(DB_A, Stamp([day |-> 1, sec |-> 1]), EXT_SQL), mtime |-> 1, src |-> DB_A],
        [dir |-> DIR_PG, name |-> ArtifactName(DB_A, Stamp([day |-> 1, sec |-> 1]), EXT_BACKUP), mtime |-> 2, src |-> DB_A],
        [dir |-> DIR_DEFAULT, name |-> ArtifactName(DB_A, Stamp([day |-> 1, sec |-> 1]), EXT_SQL), mtime |-> 3, src |-> DB_A] } }

\* the operator's --file: none, a file of a backup directory, or another path
CliFileArgs == {None, OTHER_FILE} \cup {join(f.dir, f.name) : f \in files}

InitCli ==
    /\ DATABASES \in Configs \cup {<<>>}
    /\ catalog = [i \in 1..Len(DATABASES) |-> <<>>]
    /\ files \in CliFiles
    /\ dirs = {DIR_DEFAULT} \cup {f.dir : f \in files}
    /\ now = [day |-> 1, sec |-> 2]
    /\ faults = 0
    /\ mclock = 4
    /\ pc = "sleep"
    /\ idx = 1
    /\ cycle = [n |-> 0, day |-> 1]
    /\ hist = <<>>
    /\ prev = NoCall
    /\ last = NoCall
    /\ rest = NoCall
    /\ probe = NoCall
    /\ logs = {}
    /\ cmdline = NoCall

\* the operator runs `client_restore restore` once
Cli ==
    /\ cmdline = NoCall
    /\ \E type \in CliTypes, container \in CliContainers, db \in DbArgs, backup_dir \in {None, DIR_PG} :
          \E file \in CliFileArgs :
             \E r \in Behaviours(LAMBDA plan : cli(DATABASES, type, container, db, file, backup_dir, plan),
                                 MaxFaults - faults) :
                /\ cmdline' = [fn |-> r.fn, args |-> r.args, code |-> r.code]
                /\ rest' = r.call
                /\ logs' = logs \cup r.logged
                /\ faults' = faults + Faulty(r.log)
    /\ UNCHANGED <<DATABASES, catalog, dirs, files, now, mclock, pc, idx, cycle, hist, prev, last, probe>>

NextCli == Cli

SpecCli == InitCli /\ [][NextCli]_vars

---------------------------------------------------------------------------
(* The Dedup Guard on any directory content *)

EXT_TXT == <<".", "t", "x", "t">>

\* names a backup directory can hold: artifacts of databases a and a_b of
\* two days, a file of another kind, and a file named without the time
GuardNames ==
    { ArtifactName(DB_A, Stamp([day |-> 1, sec |-> 1]), EXT_SQL),
      ArtifactName(DB_A, Stamp([day |-> 2, sec |-> 1]), EXT_BACKUP),
      ArtifactName(DB_A_B, Stamp([day |-> 1, sec |-> 1]), EXT_SQL),
      ArtifactName(DB_A_B, Stamp([day |-> 2, sec |-> 1]), EXT_SQL),
      ArtifactName(DB_A, Stamp([day |-> 1, sec |-> 1]), EXT_TXT),
      ArtifactName(DB_B, DateTag(1), EXT_BACKUP),
      ArtifactName(DB_A, DateTag(2), EXT_TXT) }

Quiet ==
    /\ DATABASES = <<>>
    /\ catalog = <<>>
    /\ now = [day |-> 1, sec |-> 0]
    /\ faults = 0
    /\ mclock = 1
    /\ pc = "sleep"
    /\ idx = 1
    /\ cycle = [n |-> 0, day |-> 1]
    /\ hist = <<>>
    /\ prev = NoCall
    /\ last = NoCall
    /\ rest = NoCall
    /\ probe = NoCall
    /\ logs = {}
    /\ cmdline = NoCall

InitGuard ==
    /\ Quiet
    /\ dirs \in {{DIR_DEFAULT}, {DIR_DEFAULT, DIR_PG}}
    /\ files \in {{[dir |-> DIR_PG, name |-> n, mtime |-> 0, src |-> None] : n \in ns} :
                     ns \in IF DIR_PG \in dirs THEN SUBSET GuardNames ELSE {{}}}

\* run_once asks the guard about a directory and a database name
GuardProbe ==
    /\ probe = NoCall
    /\ \E d \in {DIR_DEFAULT, DIR_PG}, db \in {None, <<>>, DB_A, DB_B, DB_A_B} :
          probe' = [fn |-> "_has_today_backup", backup_dir |-> d, db_name |-> db,
                    day |-> now.day, ret |-> _has_today_backup(d, db)]
    /\ UNCHANGED <<DATABASES, catalog, dirs, files, now, faults, mclock, pc, idx, cycle, hist, prev, last, rest, logs, cmdline>>

NextGuard == GuardProbe \/ NextDay

SpecGuard == InitGuard /\ [][NextGuard]_vars

---------------------------------------------------------------------------
(* The Restore Selector on any candidates *)

SelectNames ==
    { ArtifactName(DB_A, Stamp([day |-> 1, sec |-> 1]), EXT_SQL),
      ArtifactName(DB_A, Stamp([day |-> 1, sec |-> 1]), EXT_BACKUP),
      ArtifactName(DB_A, Stamp([day |-> 2, sec |-> 2]), EXT_SQL),
      ArtifactName(DB_A, Stamp([day |-> 2, sec |-> 2]), EXT_BACKUP),
      ArtifactName(DB_A, Stamp([day |-> 2, sec |-> 2]), EXT_TXT) }

\* the ways to write the names ns one after another
RECURSIVE Orders(_)
Orders(ns) ==
    IF ns = {} THEN {<<>>}
    ELSE UNION {{<<n>> \o o : o \in Orders(ns \ {n})} : n \in ns}

InitSelect ==
    /\ Quiet
    /\ dirs = {DIR_DEFAULT, DIR_PG}
    /\ files \in {{[dir |-> DIR_PG, name |-> o[i], mtime |-> i, src |-> DB_A] : i \in 1..Len(o)} :
                     o \in UNION {Orders(ns) : ns \in SUBSET SelectNames}}

PathOf(f) == join(f.dir, f.name)

\* restore_database picks the file to restore (client_restore.py:150-154)
SelectProbe ==
    /\ probe = NoCall
    /\ \E exts \in {POSTGRES_EXT_PRIORIDAD, MYSQL_EXT} :
          LET fl == _list_backup_files(DIR_PG, DB_A, exts)
          IN  probe' = [fn |-> "_choose_latest", files |-> fl, preferred_order |-> exts,
                        ret |-> _choose_latest(fl, exts)]
    /\ UNCHANGED <<DATABASES, catalog, dirs, files, now, faults, mclock, pc, idx, cycle, hist, prev, last, rest, logs, cmdline>>

\* _choose_latest on any list of paths sorted by modification time
ChooseProbe ==
    /\ probe = NoCall
    /\ \E fs \in SUBSET files, order \in {POSTGRES_EXT_PRIORIDAD, MYSQL_EXT} :
          LET fl == SortByMtimeDesc(fs)
          IN  probe' = [fn |-> "_choose_latest", files |-> fl, preferred_order |-> order,
                        ret |-> _choose_latest(fl, order)]
    /\ UNCHANGED <<DATABASES, catalog, dirs, files, now, faults, mclock, pc, idx, cycle, hist, prev, last, rest, logs, cmdline>>

NextSelect == SelectProbe \/ ChooseProbe

SpecSelect == InitSelect /\ [][NextSelect]_vars

---------------------------------------------------------------------------
(* The Database Enumerator on any output *)

PostgresLines == {<<" ", "p", "o", "s", "t", "g", "r", "e", "s">>, N_POSTGRES, <<" ", "a">>, DB_A_B, <<>>, <<" ", "p", "o", "s", "t", "g", "r", "e", "s", "_", "a">>}

MysqlLines == {N_DATABASE, N_INFORMATION_SCHEMA, N_PERFORMANCE_SCHEMA, N_MYSQL, <<"s", "y", "s", " ">>, DB_A, DB_A_B, N_DATABASE \o DB_A}

\* the sequences of at most n lines
RECURSIVE Texts(_, _)
Texts(lines, n) ==
    IF n = 0 THEN {<<>>}
    ELSE Texts(lines, n - 1) \cup {Append(t, l) : t \in {u \in Texts(lines, n - 1) : Len(u) = n - 1}, l \in lines}

InitEnum ==
    /\ Quiet
    /\ dirs = {DIR_DEFAULT}
    /\ files = {}

\* backup_database asks the engine of a target for its databases; the first
\* attempt and the retry can both fail
EnumProbe ==
    /\ probe = NoCall
    /\ \E conf \in {t \in Targets : TypeOf(t) \in {<<"postgres">>, <<"mysql">>, <<"mariadb">>}} :
          \E stdout \in Texts(IF TypeOf(conf) = <<"postgres">> THEN PostgresLines ELSE MysqlLines, MaxLines) :
             \E r \in Behaviours(LAMBDA plan :
                         IF TypeOf(conf) = <<"postgres">>
                         THEN list_postgres_databases(Start(now), conf.username, conf.password, PortOf(conf),
                                                      HostOf(conf), conf.container, stdout, plan)
                         ELSE list_mysql_databases(Start(now), conf.username, conf.password, PortOf(conf),
                                                   HostOf(conf), conf.container, stdout, plan),
                         MaxFaults + 1) :
                probe' = [fn |-> IF TypeOf(conf) = <<"postgres">> THEN "list_postgres_databases"
                                 ELSE "list_mysql_databases",
                          conf |-> conf, stdout |-> stdout, log |-> r.log, exc |-> r.exc, ret |-> r.ret]
    /\ UNCHANGED <<DATABASES, catalog, dirs, files, now, faults, mclock, pc, idx, cycle, hist, prev, last, rest, logs, cmdline>>

NextEnum == EnumProbe

SpecEnum == InitEnum /\ [][NextEnum]_vars

---------------------------------------------------------------------------
(* Properties *)

\* s = p followed by something
Begins(s, p) == \E i \in 0..Len(s) : s = p \o SubSeq(s, i + 1, Len(s))

\* s = something followed by x
Ends(s, x) == \E i \in 0..Len(s) : s = SubSeq(s, 1, i) \o x

\* C1: a command that exits non-zero while one target is backed up never
\* aborts the loop: backup_database returns normally, and when run_once ends
\* every target of the list has been checked (and backed up unless it had a
\* backup of today), whichever targets failed before it.
C1_FailedBackupDoesNotAbortLoop ==
    /\ (last.fn = "backup_database" /\ ~Ended(last.log, "oserror")) => last.exc = "none"
    /\ (last.fn = "backup_database" /\ last.caught) => Ended(last.log, "failed")
    /\ (pc = "sleep" /\ cycle.n > 0 /\ \A k \in 1..Len(hist) : ~hist[k].oserror)
          => Len(hist) = Len(DATABASES)

\* the first of two targets failed, the second was backed up all the same
C1_Witness ==
    /\ pc = "sleep"
    /\ Len(hist) = 2
    /\ hist[1].called /\ hist[1].failed
    /\ hist[2].called /\ hist[2].wrote > 0
    /\ last.conf = DATABASES[2]

TwoArtifacts(db, ts) == {db \o <<"_">> \o ts \o EXT_SQL, db \o <<"_">> \o ts \o EXT_BACKUP}

PostgresNamed(call) ==
    /\ call.fn = "backup_database"
    /\ TypeOf(call.conf) = <<"postgres">>
    /\ Truthy(call.conf.db)

TodayFor(d, x, day) ==
    {f \in files : /\ f.dir = d
                   /\ Begins(f.name, x \o <<"_">> \o DateTag(day))
                   /\ (Ends(f.name, EXT_SQL) \/ Ends(f.name, EXT_BACKUP))}

\* C4: for a non-empty database name X, _has_today_backup(dir, X) is true
\* exactly when dir exists and holds a file whose name starts with
\* X_<today> and ends in .sql or .backup.
C4_GuardNamed ==
    (probe.fn = "_has_today_backup" /\ Truthy(probe.db_name)) =>
        (probe.ret <=> (probe.backup_dir \in dirs
                        /\ TodayFor(probe.backup_dir, probe.db_name, probe.day) # {}))

\* the guard said yes for a named database in a directory that also holds
\* files that do not count
C4_Witness ==
    /\ probe.fn = "_has_today_backup"
    /\ probe.db_name = DB_A
    /\ probe.ret
    /\ \E f \in files : f.dir = probe.backup_dir /\ f \notin TodayFor(probe.backup_dir, DB_A, probe.day)

\* the files of directory d whose name holds _<today>_ and a known extension
TodayAny(d, day) ==
    {f \in files : /\ f.dir = d
                   /\ \E i \in 1..Len(f.name) :
                         Begins(SubSeq(f.name, i, Len(f.name)), <<"_">> \o DateTag(day) \o <<"_">>)
                   /\ (Ends(f.name, EXT_SQL) \/ Ends(f.name, EXT_BACKUP))}

\* C5: with no database name, _has_today_backup(dir, None) is true exactly
\* when dir exists and holds a file whose name contains _<today>_ and ends in
\* .sql or .backup, whichever database it belongs to.
C5_GuardUnnamed ==
    (probe.fn = "_has_today_backup" /\ ~Truthy(probe.db_name)) =>
        (probe.ret <=> (probe.backup_dir \in dirs /\ TodayAny(probe.backup_dir, probe.day) # {}))

\* the guard said no for a missing name although the directory holds a file
\* of today that has no time part
C5_Witness ==
    /\ probe.fn = "_has_today_backup"
    /\ probe.db_name = None
    /\ ~probe.ret
    /\ \E f \in files : f.dir = probe.backup_dir /\ Begins(f.name, DB_B \o <<"_">> \o DateTag(probe.day))

\* C6: after a run_once cycle in which every target was reached and no
\* command failed, a cycle started on the same calendar day issues no dump
\* command and writes no file, for named and for unnamed targets.
C6_SecondCycleIdempotent ==
    (cycle.n >= 2 /\ prev.clean /\ prev.day = now.day) =>
        \A k \in 1..Len(hist) : hist[k].dumps = 0 /\ hist[k].wrote = 0

\* a second cycle of the same day that skipped a named and an unnamed target,
\* both backed up by the first
C6_Witness ==
    /\ cycle.n = 2 /\ prev.clean /\ prev.day = now.day
    /\ pc = "sleep"
    /\ Len(hist) = 2
    /\ ~hist[1].called /\ ~hist[2].called
    /\ \E i, j \in 1..2 : Truthy(DATABASES[i].db) /\ ~Truthy(DATABASES[j].db)
    /\ DirOf(DATABASES[1]) # DirOf(DATABASES[2])

\* the records of the candidates of the last selection
Candidates == {f \in files : \E i \in 1..Len(probe.files) : probe.files[i] = PathOf(f)}

\* C7: with the order [.backup, .sql], whenever a candidate ends in .backup
\* the selector returns the most recently modified .backup candidate, also
\* when a .sql candidate is newer.
C7_ExtensionBeatsRecency ==
    (/\ probe.fn = "_choose_latest"
     /\ probe.preferred_order = POSTGRES_EXT_PRIORIDAD
     /\ \E f \in Candidates : Ends(f.name, EXT_BACKUP)) =>
        \E f \in Candidates :
           /\ probe.ret = PathOf(f)
           /\ Ends(f.name, EXT_BACKUP)
           /\ \A g \in Candidates : Ends(g.name, EXT_BACKUP) => g.mtime <= f.mtime

\* a .backup was chosen although a .sql candidate is newer
C7_Witness ==
    /\ probe.fn = "_choose_latest"
    /\ probe.preferred_order = POSTGRES_EXT_PRIORIDAD
    /\ Ends(probe.ret, EXT_BACKUP)
    /\ \E f, g \in Candidates : /\ probe.ret = PathOf(f)
                                /\ Ends(g.name, EXT_SQL)
                                /\ g.mtime > f.mtime

\* C8: when no candidate ends with a preferred extension, a non-empty list
\* yields its most recently modified candidate; an empty list yields None.
C8_FallbackToNewest ==
    probe.fn = "_choose_latest" =>
        /\ probe.files = <<>> => probe.ret = None
        /\ (/\ probe.files # <<>>
            /\ \A f \in Candidates : \A k \in 1..Len(probe.preferred_order) :
                  ~Ends(f.name, probe.preferred_order[k])) =>
              \E f \in Candidates : /\ probe.ret = PathOf(f)
                                    /\ \A g \in Candidates : g.mtime <= f.mtime

\* two candidates, neither with a preferred extension
C8_Witness ==
    /\ probe.fn = "_choose_latest"
    /\ Len(probe.files) >= 2
    /\ \A f \in Candidates : \A k \in 1..Len(probe.preferred_order) :
          ~Ends(f.name, probe.preferred_order[k])
    /\ probe.ret = probe.files[1]

\* C9 as stated: the file restore_database chooses for database D when no
\* file is given is an artifact of D itself (a dump taken of D), whatever the
\* directory holds.
C9_ChosenFileBelongsToDatabase ==
    (rest.fn = "restore_database" /\ ~Truthy(rest.file_path) /\ Truthy(rest.used)) =>
        \E f \in files : PathOf(f) = rest.used /\ f.src = rest.target_db

\* C10: list_postgres_databases never returns postgres; list_mysql_databases
\* never returns information_schema, performance_schema, mysql, sys or the
\* header row.
C10_SystemNamesExcluded ==
    /\ (probe.fn = "list_postgres_databases" /\ probe.exc = "none")
          => N_POSTGRES \notin Range(probe.ret)
    /\ (probe.fn = "list_mysql_databases" /\ probe.exc = "none")
          => Range(probe.ret) \cap (MYSQL_EXCLUDE \cup {N_DATABASE}) = {}

\* a listing with indented system names and a user database, of which only
\* the latter is returned
C10_Witness ==
    /\ probe.fn = "list_postgres_databases"
    /\ probe.exc = "none"
    /\ \E i \in 1..Len(probe.stdout) : probe.stdout[i] = <<" ">> \o N_POSTGRES
    /\ probe.ret = <<DB_A_B>>

\* the exception a command log ends in
Raised(log) == IF log[Len(log)].res = "ok" THEN "none" ELSE log[Len(log)].res

\* C11: list_mysql_databases issues a second list command exactly when the
\* first exited non-zero; the second is the first without its host flag;
\* there is never a third; what the last attempt raises propagates (a non-zero
\* exit of the retry as CommandFailed).  list_postgres_databases issues one
\* command and propagates its failure.
C11_MysqlRetriesExactlyOnce ==
    /\ probe.fn = "list_mysql_databases" =>
          /\ Len(probe.log) \in {1, 2}
          /\ Len(probe.log) = 2 <=> probe.log[1].res = "failed"
          /\ Len(probe.log) = 2 =>
                /\ probe.log[2].c.host = None
                /\ probe.log[2].c = [probe.log[1].c EXCEPT !.host = None]
          /\ \A k \in 1..Len(probe.log) : probe.log[k].c.op = "list"
          /\ probe.exc = Raised(probe.log)
    /\ probe.fn = "list_postgres_databases" =>
          /\ Len(probe.log) = 1
          /\ probe.exc = Raised(probe.log)

\* both attempts on a host-mode MySQL target exited non-zero
C11_Witness ==
    /\ probe.fn = "list_mysql_databases"
    /\ Len(probe.log) = 2
    /\ probe.log[1].c.host = <<"h1">>
    /\ probe.log[1].res = "failed" /\ probe.log[2].res = "failed"
    /\ probe.exc = "failed"

\* the commands of a log other than the removal of a staged copy
Steps(log) == {k \in 1..Len(log) : log[k].c.op # "cleanup"}

\* C12: restore_database never raises, whatever the target, the database
\* name, the file argument and the command that fails (by a non-zero exit or
\* by not starting at all); it returns the path of the file used or None, and
\* the path only when every step of the restore (the best-effort removal of
\* the staged copy apart) succeeded.
C12_RestoreNeverRaises ==
    rest.fn = "restore_database" =>
        /\ rest.exc = "none"
        /\ rest.ret \in {None, rest.used}
        /\ Truthy(rest.ret) => /\ rest.ret = rest.used
                               /\ Steps(rest.log) # {}
                               /\ \A k \in Steps(rest.log) : rest.log[k].res = "ok"
        /\ (\E k \in Steps(rest.log) : rest.log[k].res # "ok") => rest.ret = None

\* a restore whose command could not be started returned None
C12_Witness ==
    /\ rest.fn = "restore_database"
    /\ \E k \in Steps(rest.log) : rest.log[k].res = "oserror"
    /\ rest.raised = "oserror"
    /\ rest.exc = "none"
    /\ rest.ret = None

\* C13 as stated: no log event carries a target descriptor with its
\* plain-text password; every logged descriptor has the password `***`.
C13_LoggedPasswordsRedacted ==
    \A e \in logs : \A i \in 1..Len(e.confs) : e.confs[i].password = <<"***">>

\* no command of the log carries a host or a port flag
NoHostNoPort(log) == \A k \in 1..Len(log) : log[k].c.host = None /\ log[k].c.port = None

\* C14 as stated: for a target whose container is set, no command issued by
\* enumeration, backup or restore carries a host or port flag.
C14_ContainerModeNoHostPort ==
    /\ (last.fn = "backup_database" /\ Truthy(last.conf.container)) => NoHostNoPort(last.log)
    /\ (rest.fn = "restore_database" /\ Truthy(rest.conf.container)) => NoHostNoPort(rest.log)

\* some command of the log ended badly, and only removals of a staged file did
OnlyCleanupFailed(log) ==
    /\ Faulty(log) > 0
    /\ \A k \in 1..Len(log) : log[k].res # "ok" => log[k].c.op = "cleanup"

\* the artifacts one backup of database db of target conf at time ts consists of
ArtifactsOf(conf, db, ts) ==
    IF TypeOf(conf) = <<"postgres">> THEN TwoArtifacts(db, ts) ELSE {db \o <<"_">> \o ts \o EXT_SQL}

\* C15 as stated: a failed removal of a staged temporary file is never
\* propagated and changes nothing: the backup goes on to the remaining dumps
\* of the invocation and writes every artifact, the restore returns the file
\* it used.
C15_CleanupFailuresSwallowed ==
    /\ (last.fn = "backup_database" /\ OnlyCleanupFailed(last.log)) =>
          /\ last.exc = "none"
          /\ ~last.caught
          /\ \A i \in 1..Len(last.dbs) :
                ArtifactsOf(last.conf, last.dbs[i], Stamp(last.at)) \subseteq last.written
    /\ (rest.fn = "restore_database" /\ OnlyCleanupFailed(rest.log)) =>
          /\ rest.raised = "none"
          /\ rest.ret = rest.used

\* where restore stages file p in the container
Staged(p) == <<"/", "t", "m", "p", "/", "r", "e", "s", "t", "o", "r", "e", "_">> \o basename(p)

\* C16: in a container-mode restore every load command (psql -f, mysql <,
\* pg_restore) reads the staged copy and follows a successful staging of the
\* local file; every successful staging is followed by an attempt to remove
\* the staged copy, whatever became of the drop/create and load steps.
C16_StagedBeforeLoadRemovedAfter ==
    (rest.fn = "restore_database" /\ Truthy(rest.conf.container)) =>
        /\ \A i \in 1..Len(rest.log) :
              rest.log[i].c.op \in {"load", "restore_archive"} =>
                 /\ rest.log[i].c.path = Staged(rest.used)
                 /\ \E j \in 1..(i - 1) : /\ rest.log[j].c.op = "copy_in"
                                           /\ rest.log[j].c.path = rest.used
                                           /\ rest.log[j].res = "ok"
        /\ \A j \in 1..Len(rest.log) :
              (rest.log[j].c.op = "copy_in" /\ rest.log[j].res = "ok") =>
                 \E k \in (j + 1)..Len(rest.log) : /\ rest.log[k].c.op = "cleanup"
                                                    /\ rest.log[k].c.path = Staged(rest.used)
                                                    /\ rest.log[k].c.via = rest.conf.container

\* the load of a staged dump failed and the staged copy was removed all the same
C16_Witness ==
    /\ rest.fn = "restore_database"
    /\ Truthy(rest.conf.container)
    /\ \E i \in 1..Len(rest.log) : /\ rest.log[i].c.op \in {"load", "restore_archive"}
                                     /\ rest.log[i].res = "failed"
                                     /\ i < Len(rest.log)
                                     /\ rest.log[Len(rest.log)].c.op = "cleanup"
    /\ rest.ret = None

\* the last component of path p
BaseOf(p) == CHOOSE b \in {SubSeq(p, i, Len(p)) : i \in 1..(Len(p) + 1)} :
                /\ "/" \notin Range(b)
                /\ (b = p \/ Ends(p, <<"/">> \o b))

\* C17: given an explicit file path, restore_database uses exactly that path
\* (it is what is staged or loaded, whatever the backup directory holds);
\* when neither the call nor the descriptor names a database, the target
\* database is the part of the file's base name before its first `_`.
C17_ExplicitFileUsedAsIs ==
    (rest.fn = "restore_database" /\ Truthy(rest.file_path)) =>
        /\ rest.used = rest.file_path
        /\ rest.log # <<>>
        /\ \A k \in 1..Len(rest.log) :
              /\ rest.log[k].c.op = "copy_in" => rest.log[k].c.path = rest.file_path
              /\ (rest.log[k].c.op \in {"load", "restore_archive"} /\ ~Truthy(rest.conf.container))
                    => rest.log[k].c.path = rest.file_path
        /\ (~Truthy(rest.db) /\ ~Truthy(rest.conf.db)) =>
              /\ "_" \notin Range(rest.target_db)
              /\ \/ BaseOf(rest.file_path) = rest.target_db
                 \/ Begins(BaseOf(rest.file_path), rest.target_db \o <<"_">>)
              /\ \A k \in 1..Len(rest.log) :
                    rest.log[k].c.op \in {"drop_create", "load"} => rest.log[k].c.db = rest.target_db

\* the plain-text dump of a was given and restored although the directory
\* holds a .backup file the selector would prefer; the name came from the file
C17_Witness ==
    /\ rest.fn = "restore_database"
    /\ ~Truthy(rest.db) /\ ~Truthy(rest.conf.db)
    /\ TypeOf(rest.conf) = <<"postgres">>
    /\ Ends(rest.file_path, EXT_SQL)
    /\ rest.ret = rest.file_path
    /\ rest.target_db = DB_A
    /\ \E f \in files : /\ f.dir = DirOf(rest.conf)
                         /\ Begins(f.name, DB_A \o <<"_">>)
                         /\ Ends(f.name, EXT_BACKUP)

\* the entries of the configuration that --type and --container select
Matching(type, container) ==
    {i \in 1..Len(DATABASES) : /\ TypeOf(DATABASES[i]) = type
                               /\ Truthy(container) => DATABASES[i].container = container}

\* C18: `restore` exits 2 exactly when not exactly one entry of the
\* configuration matches --type and --container, and then restore_database is
\* not called and no command is issued; otherwise it exits 0 exactly when
\* restore_database (called on the one matching entry) returned the file it
\* used, and 1 when it returned None.
C18_CliExitCodes ==
    cmdline.fn = "cli" =>
        /\ cmdline.code \in {0, 1, 2}
        /\ cmdline.code = 2 <=> Cardinality(Matching(cmdline.args.type, cmdline.args.container)) # 1
        /\ cmdline.code = 2 => rest = NoCall /\ faults = 0
        /\ cmdline.code # 2 =>
              /\ rest.fn = "restore_database"
              /\ \E i \in Matching(cmdline.args.type, cmdline.args.container) :
                    rest.conf = IF Truthy(cmdline.args.backup_dir)
                                THEN [DATABASES[i] EXCEPT !.backup_dir = cmdline.args.backup_dir]
                                ELSE DATABASES[i]
              /\ rest.db = cmdline.args.db /\ rest.file_path = cmdline.args.file
              /\ cmdline.code = 0 <=> (Truthy(rest.ret) /\ rest.ret = rest.used)
              /\ cmdline.code = 1 <=> rest.ret = None

\* two entries matched and the command exited 2 without restoring anything
C18_Witness ==
    /\ cmdline.fn = "cli"
    /\ cmdline.code = 2
    /\ Cardinality(Matching(cmdline.args.type, cmdline.args.container)) = 2
    /\ DATABASES[1] # DATABASES[2]
    /\ Truthy(cmdline.args.file)
    /\ rest = NoCall

\* the names a listing reports: its lines without the blanks around them,
\* empty lines apart
Names(lines) ==
    LET kept == SelectSeq(lines, LAMBDA d : \E i \in 1..Len(d) : d[i] \notin {" ", "\t"})
    IN  [i \in 1..Len(kept) |-> Strip(kept[i])]

\* the names other than the excluded ones, in order, duplicates kept
Without(names, excluded) == SelectSeq(names, LAMBDA n : n \notin excluded)

\* C19 as stated: list_postgres_databases returns every reported name other
\* than postgres; list_mysql_databases returns every name reported after the
\* header line other than the four system schemas; both in reported order and
\* without deduplication.
C19_EnumerationDropsNothingElse ==
    /\ (probe.fn = "list_postgres_databases" /\ probe.exc = "none")
          => probe.ret = Without(Names(probe.stdout), POSTGRES_EXCLUDE)
    /\ (/\ probe.fn = "list_mysql_databases"
        /\ probe.exc = "none"
        /\ probe.stdout # <<>>
        /\ probe.stdout[1] = N_DATABASE)
          => probe.ret = Without(Names(Tail(probe.stdout)), MYSQL_EXCLUDE)

\* an engine tag that is none of postgres, mysql, mariadb
Unsupported(conf) == TypeOf(conf) \notin {<<"postgres">>, <<"mysql">>, <<"mariadb">>}

\* C20 as stated: for a target with an unsupported engine tag no external
\* command is ever issued: backup_database writes no artifact, and
\* restore_database returns None, with or without an explicit file path.
C20_UnsupportedEngineIssuesNoCommand ==
    /\ (last.fn = "backup_database" /\ Unsupported(last.conf))
          => last.log = <<>> /\ last.written = {}
    /\ (rest.fn = "restore_database" /\ Unsupported(rest.conf))
          => rest.log = <<>> /\ rest.ret = None

\* the call left an artifact of one of its databases unwritten (or never
\* learnt its databases)
Incomplete(call) ==
    \/ call.dbs = <<>>
    \/ \E i \in 1..Len(call.dbs) :
          ~(ArtifactsOf(call.conf, call.dbs[i], Stamp(call.at)) \subseteq call.written)

\* C21 as stated: after backup_database for a target ended with
\* CommandFailed before every artifact of every database of the target was
\* written, _has_today_backup is false for that target for the rest of the
\* day, so that the next run_once cycle backs the target up again.
C21_FailedBackupRetriedSameDay ==
    (/\ last.fn = "backup_database"
     /\ last.caught
     /\ Incomplete(last)
     /\ last.at.day = now.day)
        => ~_has_today_backup(DirOf(last.conf), last.conf.db)

\* C22 as stated: when restore_database is given only the path of a file the
\* Backup Executor wrote for database D, named <D>_<YYYYMMDD>_<HHMMSS>.<ext>,
\* the database name it derives from the file name is D.
C22_NameRoundTrip ==
    (/\ rest.fn = "restore_database"
     /\ Truthy(rest.file_path)
     /\ ~Truthy(rest.db)
     /\ ~Truthy(rest.conf.db))
        => \A f \in files : PathOf(f) = rest.file_path => rest.target_db = f.src

====
